---------------------------- MODULE Spec2Model ----------------------------
(***************************************************************************)
(* A model of ceph's ConfigKeyService (src/mon/ConfigKeyService.cc): the   *)
(* config-key command dispatcher of the monitors, with the Paxos and       *)
(* MonitorDBStore collaborators it drives.                                 *)
(*                                                                         *)
(* One monitor (`mon`) runs the service.  Its role changes with every      *)
(* election; its Paxos front-end holds the pending transaction, the        *)
(* pending finishers, the proposals handed to consensus and the requests   *)
(* waiting for readable; `store` is the committed namespace, the state     *)
(* the consensus log has been applied to.  What the monitor sends (reply   *)
(* frames to clients, requests forwarded to the leader) is recorded in     *)
(* `out`.  A forwarded request reaches the leader as a command of its      *)
(* client, which is a command received while the role is "leader".         *)
(*                                                                         *)
(* Keys and values are byte strings, modelled as sequences of byte values. *)
(* Message strings (the ss stream) are tuples of their parts.              *)
(***************************************************************************)
EXTENDS Integers, Sequences, FiniteSets, TLC

VARIABLES
  role,       \* the monitor's state: "leader", "peon" or "probing"
  store,      \* committed keys of CONFIG_PREFIX: a function key -> value
  paxos,      \* the monitor's Paxos front-end (see PaxosInit)
  out,        \* what the last handler sent: [reply, fwd]
  last,       \* the request the last step dispatched (NoOp: none)
  nreplies,   \* nreplies[id]: reply frames sent so far for request id
  committed,  \* history: the mutations applied to store, in commit order
  nextId,     \* the id the next client request gets
  calls,      \* history: the OSD lifecycle calls made so far, oldest first
  timer       \* the tick timer and the service's side of it (see TimerInit)

vars == <<role, store, paxos, out, last, nreplies, committed, nextId, calls,
          timer>>

-----------------------------------------------------------------------------
(* Bounds of the model *)

\* Requests the clients send in one behaviour.
MaxOps == 2

\* g_conf()->mon_config_key_max_entry_size, in bytes.
MaxEntrySize == 2

\* The OSD lifecycle calls a behaviour makes.
MaxCalls == 3

\* Tick events created, and upkeep runs, in a behaviour.
MaxEvents == 3

-----------------------------------------------------------------------------
(* Program constants *)

ENOENT == 2
EEXIST == 17
EFBIG == 27

\* mon.is_leader(), mon.is_peon(), or neither (probing, electing, ...).
Roles == {"leader", "peon", "probing"}

PutVerbs == {"config-key put", "config-key set"}
DelVerbs == {"config-key del", "config-key rm"}
ReadVerbs == {"config-key get", "config-key exists", "config-key list",
              "config-key ls", "config-key dump"}
Verbs == PutVerbs \cup DelVerbs \cup ReadVerbs

\* Keys: "a" and "ab"; the first is a prefix of the second.
K1 == <<97>>
K2 == <<97, 98>>
Keys == {K1, K2}
NoKey == <<>>

\* Values: printable text, a binary blob, and one byte over the size limit.
ValA == <<104>>
ValB == <<0, 200>>
ValBig == [i \in 1..(MaxEntrySize + 1) |-> 120]
Vals == {<<>>, ValA, ValB, ValBig}

Srcs == {"client", "mon"}

\* One command (MMonCommand): the fields cmdmap_from_json parses from cmd
\* (prefix, key, val when hasval), the attached data payload, the source
\* entity, and whether cmd decodes at all.
Cmd(prefix, key, hasval, val, data, src, json_ok) ==
  [prefix |-> prefix, key |-> key, hasval |-> hasval, val |-> val,
   data |-> data, src |-> src, json_ok |-> json_ok]

Plain(prefix, key, src) == Cmd(prefix, key, FALSE, <<>>, <<>>, src, TRUE)

\* Reads of a client: every read verb; dump with and without a prefix.
ClientReads ==
  {Plain("config-key get", k, "client") : k \in Keys}
  \cup {Plain("config-key exists", K1, "client")}
  \cup {Plain(v, NoKey, "client") : v \in {"config-key list", "config-key ls"}}
  \cup {Plain("config-key dump", k, "client") : k \in {NoKey, K2}}

ClientDels == {Plain("config-key del", K1, "client"),
               Plain("config-key rm", K2, "client")}

\* Puts of a client: with a value in the command, under either verb; and
\* the other ways to carry a value: one over the size limit, a payload and
\* no val (within the limit, over it), a val and a payload (over the limit)
\* together, neither.
ClientPuts ==
  {Cmd("config-key put", K1, TRUE, ValA, <<>>, "client", TRUE),
   Cmd("config-key set", K1, TRUE, ValB, <<>>, "client", TRUE),
   Cmd("config-key put", K1, TRUE, ValBig, <<>>, "client", TRUE),
   Cmd("config-key set", K1, FALSE, <<>>, ValBig, "client", TRUE),
   Cmd("config-key put", K2, FALSE, <<>>, ValA, "client", TRUE),
   Cmd("config-key put", K1, TRUE, ValA, ValBig, "client", TRUE),
   Cmd("config-key put", K1, FALSE, <<>>, <<>>, "client", TRUE)}

\* Commands of a peer monitor: a read, a put.
MonCmds ==
  {Plain("config-key get", K1, "mon"),
   Cmd("config-key put", K1, TRUE, ValA, <<>>, "mon", TRUE)}

\* A command whose cmd does not decode; what it would have said is never
\* read.
Malformed == {Cmd("config-key put", K1, TRUE, ValA, <<>>, "client", FALSE)}

Requests == ClientReads \cup ClientDels \cup ClientPuts \cup MonCmds
            \cup Malformed

MkOp(id, r) ==
  [id |-> id, prefix |-> r.prefix, key |-> r.key, hasval |-> r.hasval,
   val |-> r.val, data |-> r.data, src |-> r.src, json_ok |-> r.json_ok]

\* What a completion keeps of its request: whom to answer.
OpRef(op) == [id |-> op.id, src |-> op.src]

\* A null Context*.
NoCb == [null |-> TRUE]

\* No request.
NoOp == [id |-> 0]

-----------------------------------------------------------------------------
(* Strings *)

IsPrefix(p, s) ==
  /\ Len(p) <= Len(s)
  /\ \A i \in 1..Len(p) : p[i] = s[i]

RECURSIVE KeyLess(_, _)
KeyLess(a, b) ==
  IF a = <<>> THEN b # <<>>
  ELSE IF b = <<>> THEN FALSE
  ELSE IF Head(a) # Head(b) THEN Head(a) < Head(b)
  ELSE KeyLess(Tail(a), Tail(b))

RECURSIVE SortKeys(_)
SortKeys(S) ==
  IF S = {} THEN <<>>
  ELSE LET m == CHOOSE x \in S : \A y \in S \ {x} : KeyLess(x, y)
       IN  <<m>> \o SortKeys(S \ {m})

cpp_strerror(r) == <<"errno", r>>

-----------------------------------------------------------------------------
(* MonitorDBStore: the committed namespace and its transactions *)

\* mon.store->get_iterator(CONFIG_PREFIX): the keys in order.
get_iterator == SortKeys(DOMAIN store)

\* MonitorDBStore::get: 0 and the value, or -ENOENT and nothing.
db_get(key) ==
  IF key \in DOMAIN store THEN [r |-> 0, bl |-> store[key]]
  ELSE [r |-> -ENOENT, bl |-> <<>>]

db_exists(key) == key \in DOMAIN store

\* One operation of a transaction applied to a namespace.
ApplyOne(s, mut) ==
  IF mut.kind = "put"
  THEN [k \in DOMAIN s \cup {mut.key} |-> IF k = mut.key THEN mut.val ELSE s[k]]
  ELSE [k \in DOMAIN s \ {mut.key} |-> s[k]]

\* MonitorDBStore::apply_transaction: the operations in order.
RECURSIVE ApplyTxn(_, _)
ApplyTxn(s, txn) ==
  IF txn = <<>> THEN s ELSE ApplyTxn(ApplyOne(s, Head(txn)), Tail(txn))

\* Transaction::put and Transaction::erase on the pending transaction.
\* `by` is history: the id of the request that staged the operation, 0 when
\* no request did.
t_put(px, key, bl, by) ==
  [px EXCEPT !.pending =
     Append(@, [kind |-> "put", key |-> key, val |-> bl, by |-> by])]

t_erase(px, key, by) ==
  [px EXCEPT !.pending =
     Append(@, [kind |-> "erase", key |-> key, val |-> <<>>, by |-> by])]

-----------------------------------------------------------------------------
(* Paxos front-end of the monitor *)

PaxosInit ==
  [pending   |-> <<>>,    \* the pending transaction's operations
   finishers |-> <<>>,    \* pending_finishers
   proposals |-> <<>>,    \* batches handed to consensus, not yet committed
   waiting   |-> <<>>,    \* waiting_for_readable
   plugged   |-> FALSE]

queue_pending_finisher(px, cb) ==
  [px EXCEPT !.finishers = Append(@, cb)]

\* Hands the batch to consensus and starts a fresh one; deferred while
\* plugged.
trigger_propose(px) ==
  IF px.plugged \/ (px.pending = <<>> /\ px.finishers = <<>>) THEN px
  ELSE [px EXCEPT !.proposals =
                    Append(@, [txn |-> px.pending, fins |-> px.finishers]),
                  !.pending = <<>>,
                  !.finishers = <<>>]

wait_for_readable(px, op) ==
  [px EXCEPT !.waiting = Append(@, op)]

\* The operations of a sequence of batches, oldest first.
RECURSIVE Flatten(_)
Flatten(batches) ==
  IF batches = <<>> THEN <<>>
  ELSE Head(batches).txn \o Flatten(Tail(batches))

\* new Monitor::C_Command(mon, op, rc, rs, version)
C_Command(op, rc, rs) == [op |-> OpRef(op), rc |-> rc, rs |-> rs]

\* mon.reply_command(op, rc, rs, rdata, version): one reply frame.
reply_command(op, rc, rs, rdata) ==
  [id |-> op.id, ret |-> rc, rs |-> rs, rdata |-> rdata]

\* C_Command::finish on commit: the deferred reply, which only a request
\* from outside the quorum gets.
C_Command_finish(cb) ==
  IF cb.op.src # "mon" THEN <<reply_command(cb.op, cb.rc, cb.rs, <<>>)>>
  ELSE <<>>

\* The request a completion answers, 0 for a null Context*.
CbId(cb) == IF cb = NoCb THEN 0 ELSE cb.op.id

-----------------------------------------------------------------------------
(* ConfigKeyService *)

is_leader == role = "leader"

is_peon == role = "peon"

\* in_quorum true of the leader alone.
in_quorum_LeaderOnly == is_leader

\* in_quorum with the peon test negated.
in_quorum_NotPeon == is_leader \/ ~is_peon

in_quorum == is_leader \/ is_peon

\* store_get that looks into what is staged before it reads the store.
store_get_ReadsStaged(key) ==
  LET ops == Flatten(paxos.proposals) \o paxos.pending
      S   == {i \in 1..Len(ops) : ops[i].key = key /\ ops[i].kind = "put"}
  IN  IF S = {} THEN db_get(key)
      ELSE [r |-> 0, bl |-> ops[CHOOSE i \in S : \A j \in S : j <= i].val]

store_get(key) == db_get(key)

\* store_put that proposes before it queues the completion.
store_put_ProposeFirst(px, key, bl, cb) ==
  LET t == trigger_propose(t_put(px, key, bl, CbId(cb)))
  IN  IF cb # NoCb THEN queue_pending_finisher(t, cb) ELSE t

store_put(px, key, bl, cb) ==
  LET t == t_put(px, key, bl, CbId(cb))
      q == IF cb # NoCb THEN queue_pending_finisher(t, cb) ELSE t
  IN  trigger_propose(q)

store_delete_t(px, key, by) == t_erase(px, key, by)

store_delete(px, key, cb) ==
  LET t == store_delete_t(px, key, CbId(cb))
      q == IF cb # NoCb THEN queue_pending_finisher(t, cb) ELSE t
  IN  trigger_propose(q)

\* store_exists looking through the operations staged so far.
store_exists_SeesStaged(key) ==
  key \in DOMAIN ApplyTxn(store, Flatten(paxos.proposals) \o paxos.pending)

store_exists(key) == db_exists(key)

store_list == <<"keys", get_iterator>>

store_has_prefix(prefix) ==
  \E i \in 1..Len(get_iterator) : IsPrefix(prefix, get_iterator[i])

\* char is signed on the builds ceph targets: a byte of 128 or more is
\* negative when compared.
AsChar(b) == IF b >= 128 THEN b - 256 ELSE b

\* is_binary_string that takes only the control characters for binary.
is_binary_string_ControlOnly(s) ==
  \E i \in 1..Len(s) :
    LET c == s[i]
    IN  c < 32 /\ c # 10 /\ c # 9

is_binary_string(s) ==
  \E i \in 1..Len(s) :
    LET c == AsChar(s[i])
    IN  (c < 32 /\ c # 10 /\ c # 9) \/ c >= 127

\* iter->lower_bound(prefix): skip the keys below prefix.
RECURSIVE lower_bound(_, _)
lower_bound(it, prefix) ==
  IF it = <<>> THEN it
  ELSE IF KeyLess(Head(it), prefix) THEN lower_bound(Tail(it), prefix)
  ELSE it

DumpEntry(key) ==
  LET s == store[key]
  IN  IF is_binary_string(s)
      THEN <<key, <<"<<< binary blob of length ", Len(s), " >>>">> >>
      ELSE <<key, s>>

RECURSIVE DumpLoop(_, _)
DumpLoop(it, prefix) ==
  IF it = <<>> THEN <<>>
  ELSE IF Len(prefix) > 0 /\ ~IsPrefix(prefix, Head(it)) THEN <<>>
  ELSE <<DumpEntry(Head(it))>> \o DumpLoop(Tail(it), prefix)

store_dump(prefix) ==
  LET it == IF Len(prefix) > 0 THEN lower_bound(get_iterator, prefix)
            ELSE get_iterator
  IN  <<"config-key store", DumpLoop(it, prefix)>>

\* PutData with the payload taking precedence over val.
PutData_PayloadFirst(op) ==
  IF Len(op.data) > 0 THEN op.data
  ELSE IF op.hasval THEN op.val
  ELSE <<>>

\* The value a put carries: val when given, else the attached payload.
PutData(op) ==
  IF op.hasval THEN op.val
  ELSE IF Len(op.data) > 0 THEN op.data
  ELSE <<>>

\* The size check off by one.
TooLarge_OffByOne(data) == Len(data) > MaxEntrySize + 1

TooLarge(data) == Len(data) > MaxEntrySize

\* The result of one service_dispatch call: the Paxos front-end after it,
\* the requests forwarded to the leader, the reply frames sent and the
\* value returned.
Result(px, fwd, reply, ret) ==
  [px |-> px, fwd |-> fwd, reply |-> reply, ret |-> ret]

\* The `out:` label without the test of the source.
ReplyOut_Always(px, op, ret, rs, rdata) ==
  Result(px, <<>>, <<reply_command(op, ret, rs, rdata)>>, ret = 0)

\* The `out:` label: reply unless the request came from a monitor.
ReplyOut(px, op, ret, rs, rdata) ==
  Result(px, <<>>,
         IF op.src # "mon" THEN <<reply_command(op, ret, rs, rdata)>>
         ELSE <<>>,
         ret = 0)

\* mon.forward_request_leader(op); return true.
Forward(px, op) == Result(px, <<op>>, <<>>, TRUE)

\* get sent to the leader the way writes are.
DispatchGet_LeaderOnly(px, op) ==
  IF ~is_leader THEN Forward(px, op)
  ELSE LET g == store_get(op.key)
       IN  ReplyOut(px, op, g.r, <<"obtained '", op.key, "'">>, g.bl)

DispatchGet(px, op) ==
  LET g == store_get(op.key)
  IN  IF g.r < 0
      THEN ReplyOut(px, op, g.r,
                    <<"error obtaining '", op.key, "': ", cpp_strerror(g.r)>>,
                    g.bl)
      ELSE ReplyOut(px, op, g.r, <<"obtained '", op.key, "'">>, g.bl)

DispatchPut(px, op) ==
  IF ~is_leader THEN Forward(px, op)
  ELSE LET data == PutData(op)
       IN  IF TooLarge(data)
           THEN ReplyOut(px, op, -EFBIG,
                         <<"error: entry size limited to ", MaxEntrySize,
                           " bytes. ">>, <<>>)
           ELSE Result(store_put(px, op.key, data,
                                 C_Command(op, 0, <<"set ", op.key>>)),
                       <<>>, <<>>, TRUE)

\* del/rm without the leadership check.
DispatchDel_NoLeaderCheck(px, op) ==
  IF ~store_exists(op.key)
  THEN ReplyOut(px, op, 0, <<"no such key '", op.key, "'">>, <<>>)
  ELSE Result(store_delete(px, op.key, C_Command(op, 0, <<"key deleted">>)),
              <<>>, <<>>, TRUE)

\* del/rm without the existence check.
DispatchDel_NoExistsCheck(px, op) ==
  IF ~is_leader THEN Forward(px, op)
  ELSE Result(store_delete(px, op.key, C_Command(op, 0, <<"key deleted">>)),
              <<>>, <<>>, TRUE)

DispatchDel(px, op) ==
  IF ~is_leader THEN Forward(px, op)
  ELSE IF ~store_exists(op.key)
       THEN ReplyOut(px, op, 0, <<"no such key '", op.key, "'">>, <<>>)
       ELSE Result(store_delete(px, op.key,
                                C_Command(op, 0, <<"key deleted">>)),
                   <<>>, <<>>, TRUE)

\* exists answering a missing key with status 0.
DispatchExists_ZeroStatus(px, op) ==
  IF store_exists(op.key)
  THEN ReplyOut(px, op, 0, <<"key '", op.key, "'", " exists">>, <<>>)
  ELSE ReplyOut(px, op, 0, <<"key '", op.key, "'", " doesn't exist">>, <<>>)

DispatchExists(px, op) ==
  IF store_exists(op.key)
  THEN ReplyOut(px, op, 0, <<"key '", op.key, "'", " exists">>, <<>>)
  ELSE ReplyOut(px, op, -ENOENT,
                <<"key '", op.key, "'", " doesn't exist">>, <<>>)

\* Not in quorum, with no retry callback registered.
Park_NoCallback(px, op) == Result(px, <<>>, <<>>, FALSE)

\* paxos.wait_for_readable(op, new Monitor::C_RetryMessage(&mon, op));
\* return false.
Park(px, op) ==
  Result(wait_for_readable(px, op), <<>>, <<>>, FALSE)

\* A command that does not decode answered with an error.
Drop_Reply(px, op) ==
  Result(px, <<>>, <<reply_command(op, -1, <<"bad json">>, <<>>)>>, FALSE)

\* cmdmap_from_json fails: return false.
Drop(px, op) == Result(px, <<>>, <<>>, FALSE)

service_dispatch(px, op) ==
  IF ~in_quorum THEN Park(px, op)
  ELSE IF ~op.json_ok THEN Drop(px, op)
  ELSE IF op.prefix = "config-key get" THEN DispatchGet(px, op)
  ELSE IF op.prefix \in {"config-key put", "config-key set"}
    THEN DispatchPut(px, op)
  ELSE IF op.prefix \in {"config-key del", "config-key rm"}
    THEN DispatchDel(px, op)
  ELSE IF op.prefix = "config-key exists" THEN DispatchExists(px, op)
  ELSE IF op.prefix \in {"config-key list", "config-key ls"}
    THEN ReplyOut(px, op, 0, <<>>, store_list)
  ELSE IF op.prefix = "config-key dump"
    THEN ReplyOut(px, op, 0, <<>>, store_dump(op.key))
  ELSE ReplyOut(px, op, 0, <<>>, <<>>)

-----------------------------------------------------------------------------
(* OSD lifecycle: the keys of an OSD and the four entry points *)

\* "dm-crypt/osd/"
DmcryptRoot == <<100, 109, 45, 99, 114, 121, 112, 116, 47, 111, 115, 100, 47>>

\* "daemon-private/osd."
DaemonRoot ==
  <<100, 97, 101, 109, 111, 110, 45, 112, 114, 105, 118, 97, 116, 101, 47,
    111, 115, 100, 46>>

\* "/"
Slash == <<47>>

\* "luks"
Luks == <<108, 117, 107, 115>>

\* The decimal digits of a natural number.
RECURSIVE Digits(_)
Digits(n) ==
  IF n < 10 THEN <<48 + n>> ELSE Digits(n \div 10) \o <<48 + (n % 10)>>

\* stringify(id) of an int32_t; a uuid_d is kept in its printed form.
stringify(n) == IF n < 0 THEN <<45>> \o Digits(-n) ELSE Digits(n)

\* _get_dmcrypt_prefix(uuid, k)
get_dmcrypt_prefix(uuid, k) == DmcryptRoot \o uuid \o Slash \o k

\* "daemon-private/osd." + stringify(id) + "/"
daemon_prefix(id) == DaemonRoot \o stringify(id) \o Slash

\* store_delete_prefix: the loop over the committed keys.
RECURSIVE DeletePrefixLoop(_, _, _, _)
DeletePrefixLoop(px, it, prefix, by) ==
  IF it = <<>> THEN px
  ELSE DeletePrefixLoop(IF IsPrefix(prefix, Head(it))
                        THEN store_delete_t(px, Head(it), by)
                        ELSE px,
                        Tail(it), prefix, by)

\* store_delete_prefix erasing every key, whatever its beginning.
store_delete_prefix_All(px, prefix, by) ==
  DeletePrefixLoop(px, get_iterator, <<>>, by)

store_delete_prefix(px, prefix, by) ==
  DeletePrefixLoop(px, get_iterator, prefix, by)

\* validate_osd_destroy asking for keys under both prefixes.
validate_osd_destroy_Both(id, uuid) ==
  IF ~store_has_prefix(get_dmcrypt_prefix(uuid, <<>>))
     \/ ~store_has_prefix(daemon_prefix(id))
  THEN -ENOENT
  ELSE 0

validate_osd_destroy(id, uuid) ==
  IF ~store_has_prefix(get_dmcrypt_prefix(uuid, <<>>))
     /\ ~store_has_prefix(daemon_prefix(id))
  THEN -ENOENT
  ELSE 0

\* do_osd_destroy proposing after each prefix.
do_osd_destroy_ProposeEach(px, id, uuid, by) ==
  LET t1 == trigger_propose(
              store_delete_prefix(px, get_dmcrypt_prefix(uuid, <<>>), by))
  IN  trigger_propose(store_delete_prefix(t1, daemon_prefix(id), by))

do_osd_destroy(px, id, uuid, by) ==
  LET t1 == store_delete_prefix(px, get_dmcrypt_prefix(uuid, <<>>), by)
      t2 == store_delete_prefix(t1, daemon_prefix(id), by)
  IN  trigger_propose(t2)

\* validate_osd_new taking a matching key for a conflict.
validate_osd_new_NoIdempotence(uuid, dmcrypt_key) ==
  IF store_exists(get_dmcrypt_prefix(uuid, Luks))
  THEN [r |-> -EEXIST,
        ss |-> "dm-crypt key already exists and does not match"]
  ELSE [r |-> 0, ss |-> ""]

\* The value returned and what is written to ss.
validate_osd_new(uuid, dmcrypt_key) ==
  LET dmcrypt_prefix == get_dmcrypt_prefix(uuid, Luks)
  IN  IF store_exists(dmcrypt_prefix)
      THEN LET g == store_get(dmcrypt_prefix)
           IN  IF g.r < 0 THEN [r |-> g.r, ss |-> ""]
               ELSE IF g.bl = dmcrypt_key THEN [r |-> EEXIST, ss |-> ""]
               ELSE [r |-> -EEXIST,
                     ss |-> "dm-crypt key already exists and does not match"]
      ELSE [r |-> 0, ss |-> ""]

\* The calls store_put makes on the Paxos front-end, in order.
store_put_calls(cb) ==
  <<"get_pending_transaction", "put">>
  \o (IF cb # NoCb THEN <<"queue_pending_finisher">> ELSE <<>>)
  \o <<"trigger_propose">>

\* do_osd_new handing store_put a completion.
do_osd_new_Queues(px, uuid, dmcrypt_key) ==
  store_put(px, get_dmcrypt_prefix(uuid, Luks), dmcrypt_key,
            C_Command([id |-> 0, src |-> "client"], 0, <<"set">>))

\* do_osd_new once the assertion has passed.
do_osd_new(px, uuid, dmcrypt_key) ==
  store_put(px, get_dmcrypt_prefix(uuid, Luks), dmcrypt_key, NoCb)

\* The calls do_osd_new makes on the Paxos front-end: the assertion, then
\* those of store_put with a null callback.
do_osd_new_calls == <<"is_plugged">> \o store_put_calls(NoCb)

-----------------------------------------------------------------------------
(* The tick timer *)

\* No event (a null Context*).
NoEvent == 0

\* The service as constructed: tick_period is mon_tick_interval, no event
\* created yet.  armed is the timer's schedule, cancelled the events taken
\* off it whose callbacks were not run, created counts the events, upkeep
\* the service_tick calls.
TimerInit ==
  [tick_period |-> 1, tick_event |-> NoEvent, armed |-> {}, cancelled |-> {},
   created |-> 0, upkeep |-> 0]

\* mon.timer.cancel_event(e): an event still on the schedule is taken off
\* it; its callback is not run.  An event that is not on the schedule (it
\* has fired, or was cancelled before) is not found and nothing happens.
cancel_event(tm, e) ==
  IF e \in tm.armed
  THEN [tm EXCEPT !.armed = @ \ {e}, !.cancelled = @ \cup {e}]
  ELSE tm

\* mon.timer.add_event_after(tick_period, e)
add_event_after(tm, e) == [tm EXCEPT !.armed = @ \cup {e}]

cancel_tick(tm) ==
  LET t1 == IF tm.tick_event # NoEvent THEN cancel_event(tm, tm.tick_event)
            ELSE tm
  IN  [t1 EXCEPT !.tick_event = NoEvent]

\* start_tick that arms a new event without cancelling the armed one.
start_tick_NoCancel(tm) ==
  IF tm.tick_period <= 0 THEN tm
  ELSE LET e == tm.created + 1
       IN  add_event_after([tm EXCEPT !.created = e, !.tick_event = e], e)

start_tick(tm) ==
  LET t1 == cancel_tick(tm)
  IN  IF t1.tick_period <= 0 THEN t1
      ELSE LET e == t1.created + 1
           IN  add_event_after([t1 EXCEPT !.created = e, !.tick_event = e],
                               e)

set_update_period(tm, t) == [tm EXCEPT !.tick_period = t]

\* service_tick(): the upkeep of the service.
service_tick(tm) == [tm EXCEPT !.upkeep = @ + 1]

tick(tm) == start_tick(service_tick(tm))

\* service_shutdown() does nothing to the timer.
service_shutdown(tm) == tm

shutdown(tm) == service_shutdown(cancel_tick(tm))

\* The callback of a tick event, completed with r.
tick_callback(tm, r) == IF r < 0 THEN tm ELSE tick(tm)

-----------------------------------------------------------------------------
(* The state machine *)

Silent == [reply |-> <<>>, fwd |-> <<>>]

Count(frames, id) == Cardinality({i \in 1..Len(frames) : frames[i].id = id})

\* A handler sends its frames: out is replaced, the counts grow.
Send(reply, fwd) ==
  /\ out' = [reply |-> reply, fwd |-> fwd]
  /\ nreplies' = [i \in DOMAIN nreplies |-> nreplies[i] + Count(reply, i)]

\* ConfigKeyService::dispatch(op), the Paxos front-end being px when the
\* call starts.
Dispatch(px, op) ==
  LET res == service_dispatch(px, op)
  IN  /\ paxos' = res.px
      /\ Send(res.reply, res.fwd)
      /\ last' = op
      /\ UNCHANGED <<role, store, committed, calls, timer>>

\* The history of a namespace found at start: one put per key.
InitialLog(s) ==
  LET it == SortKeys(DOMAIN s)
  IN  [i \in 1..Len(it) |->
         [kind |-> "put", key |-> it[i], val |-> s[it[i]], by |-> 0]]

\* The frames the finishers of a committed batch send, in order.
RECURSIVE FinishAll(_)
FinishAll(fins) ==
  IF fins = <<>> THEN <<>>
  ELSE C_Command_finish(Head(fins)) \o FinishAll(Tail(fins))

Init ==
  /\ role \in Roles
  /\ store \in {<<>>, [k \in {K1} |-> ValA]}
  /\ paxos = PaxosInit
  /\ out = Silent
  /\ last = NoOp
  /\ nreplies = [i \in 1..MaxOps |-> 0]
  /\ committed = InitialLog(store)
  /\ nextId = 1
  /\ calls = <<>>
  /\ timer = TimerInit

\* A command arrives: from a client, from a peer monitor, or forwarded by
\* a peon on behalf of its client.
Recv(r) ==
  /\ nextId <= MaxOps
  /\ nextId' = nextId + 1
  /\ Dispatch(paxos, MkOp(nextId, r))

\* Paxos is readable again: the first C_RetryMessage runs and dispatches
\* its request anew.
Retry ==
  /\ in_quorum
  /\ paxos.waiting # <<>>
  /\ Dispatch([paxos EXCEPT !.waiting = Tail(@)], Head(paxos.waiting))
  /\ UNCHANGED nextId

\* Consensus commits the oldest proposal: the transaction is applied and
\* its finishers run, each C_Command sending its reply.
Commit ==
  /\ paxos.proposals # <<>>
  /\ LET b == Head(paxos.proposals)
     IN  /\ store' = ApplyTxn(store, b.txn)
         /\ committed' = committed \o b.txn
         /\ Send(FinishAll(b.fins), <<>>)
         /\ last' = NoOp
  /\ paxos' = [paxos EXCEPT !.proposals = Tail(@)]
  /\ UNCHANGED <<role, nextId, calls, timer>>

\* An election ends, or quorum is lost.
Elect(r) ==
  /\ r # role
  /\ role' = r
  /\ out' = Silent
  /\ last' = NoOp
  /\ UNCHANGED <<store, paxos, nreplies, committed, nextId, calls, timer>>

\* The leader's caller pauses proposals (paxos.plug()).
Plug ==
  /\ is_leader
  /\ ~paxos.plugged
  /\ paxos' = [paxos EXCEPT !.plugged = TRUE]
  /\ out' = Silent
  /\ last' = NoOp
  /\ UNCHANGED <<role, store, nreplies, committed, nextId, calls, timer>>

\* The caller resumes proposals and proposes what was staged meanwhile.
Unplug ==
  /\ paxos.plugged
  /\ paxos' = trigger_propose([paxos EXCEPT !.plugged = FALSE])
  /\ out' = Silent
  /\ last' = NoOp
  /\ UNCHANGED <<role, store, nreplies, committed, nextId, calls, timer>>

Next ==
  \/ \E r \in Requests : Recv(r)
  \/ Retry
  \/ Commit
  \/ \E r \in Roles : Elect(r)
  \/ Plug
  \/ Unplug

Spec == Init /\ [][Next]_vars

\* Consensus commits what was proposed; the caller that plugged Paxos
\* unplugs it; a monitor that is in quorum again and again has its
\* C_RetryMessage callbacks run.
Fairness == WF_vars(Commit) /\ WF_vars(Unplug) /\ SF_vars(Retry)

FairSpec == Spec /\ Fairness

-----------------------------------------------------------------------------
(* The OSD lifecycle on the leader: the calls OSDMonitor makes *)

\* Printed uuids (of equal length, as printed uuids are) and OSD ids, one
\* id the other's first digit.
UuidA == <<97>>
UuidB == <<98>>
Uuids == {UuidA, UuidB}
OsdIds == {1, 10}

\* dm-crypt keys, one of them binary.
SecA == <<115>>
SecB == <<0, 255>>
Secrets == {SecA, SecB}

LuksKey(uuid) == get_dmcrypt_prefix(uuid, Luks)

\* A key of the daemon's own: "daemon-private/osd.<id>/x"
DaemonKey(id) == daemon_prefix(id) \o <<120>>

\* The function of a set of <<key, value>> pairs.
MkStore(S) ==
  [k \in {p[1] : p \in S} |-> (CHOOSE p \in S : p[1] = k)[2]]

\* Namespaces found at start: empty; one OSD with keys under both
\* prefixes; keys of another OSD and of no OSD; all of these.
OsdStores ==
  {MkStore({}),
   MkStore({<<LuksKey(UuidA), SecA>>, <<DaemonKey(1), ValA>>}),
   MkStore({<<DaemonKey(10), ValA>>, <<K1, ValA>>}),
   MkStore({<<LuksKey(UuidA), SecA>>, <<LuksKey(UuidB), SecB>>,
            <<DaemonKey(1), ValA>>, <<DaemonKey(10), ValB>>,
            <<K1, ValA>>})}

DestroyArgs == {<<1, UuidA>>, <<10, UuidB>>}
NewArgs == {<<UuidA, SecA>>, <<UuidA, SecB>>}

OsdInit ==
  /\ role = "leader"
  /\ store \in OsdStores
  /\ paxos = PaxosInit
  /\ out = Silent
  /\ last = NoOp
  /\ nreplies = [i \in 1..MaxOps |-> 0]
  /\ committed = InitialLog(store)
  /\ nextId = 1
  /\ calls = <<>>
  /\ timer = TimerInit

\* validate_osd_destroy(id, uuid): out is the value returned.
ValidateDestroy(id, uuid) ==
  /\ role = "leader"
  /\ last' = [fn |-> "validate_osd_destroy", id |-> id, uuid |-> uuid]
  /\ out' = [r |-> validate_osd_destroy(id, uuid)]
  /\ UNCHANGED <<role, store, paxos, nreplies, committed, nextId, calls,
                 timer>>

\* do_osd_destroy(id, uuid); what it stages is tagged with the call's
\* place in history.
DoDestroy(id, uuid) ==
  /\ role = "leader"
  /\ Len(calls) < MaxCalls
  /\ LET c == [fn |-> "do_osd_destroy", id |-> id, uuid |-> uuid]
     IN  /\ paxos' = do_osd_destroy(paxos, id, uuid, Len(calls) + 1)
         /\ calls' = Append(calls, c)
         /\ last' = c
  /\ out' = Silent
  /\ UNCHANGED <<role, store, nreplies, committed, nextId, timer>>

\* validate_osd_new(uuid, dmcrypt_key, ss): out is the value returned and
\* the text written.
ValidateNew(uuid, key) ==
  /\ role = "leader"
  /\ Len(calls) < MaxCalls
  /\ LET res == validate_osd_new(uuid, key)
         c == [fn |-> "validate_osd_new", uuid |-> uuid, key |-> key,
               r |-> res.r]
     IN  /\ out' = res
         /\ calls' = Append(calls, c)
         /\ last' = c
  /\ UNCHANGED <<role, store, paxos, nreplies, committed, nextId, timer>>

\* do_osd_new(uuid, dmcrypt_key): ceph_assert(paxos.is_plugged()) aborts the
\* monitor when Paxos is not plugged.  out is the calls made on Paxos.
DoNew(uuid, key) ==
  /\ role = "leader"
  /\ Len(calls) < MaxCalls
  /\ LET c == [fn |-> "do_osd_new", uuid |-> uuid, key |-> key]
     IN  calls' = Append(calls, c) /\ last' = c
  /\ IF paxos.plugged
     THEN /\ paxos' = do_osd_new(paxos, uuid, key)
          /\ out' = [trace |-> do_osd_new_calls]
          /\ role' = role
     ELSE /\ paxos' = paxos
          /\ out' = [trace |-> <<"is_plugged">>]
          /\ role' = "aborted"
  /\ UNCHANGED <<store, nreplies, committed, nextId, timer>>

\* The caller plugs and unplugs Paxos around a multi-step update, and
\* consensus commits, as long as the monitor runs.
OsdPlug == role = "leader" /\ Plug
OsdUnplug == role = "leader" /\ Unplug
OsdCommit == role = "leader" /\ Commit

OsdNext ==
  \/ \E id \in OsdIds : ValidateDestroy(id, UuidA)
  \/ \E a \in DestroyArgs : DoDestroy(a[1], a[2])
  \/ \E a \in NewArgs : ValidateNew(a[1], a[2])
  \/ \E a \in NewArgs : DoNew(a[1], a[2])
  \/ OsdPlug
  \/ OsdUnplug
  \/ OsdCommit

OsdSpec == OsdInit /\ [][OsdNext]_vars

-----------------------------------------------------------------------------
(* The tick timer: the calls of the monitor and the firing of the events *)

\* Values of tick_period; zero and negative ones disable the tick.
Periods == {-1, 0, 1, 2}

TickInit ==
  /\ role = "leader"
  /\ store = MkStore({})
  /\ paxos = PaxosInit
  /\ out = Silent
  /\ last = NoOp
  /\ nreplies = [i \in 1..MaxOps |-> 0]
  /\ committed = InitialLog(store)
  /\ nextId = 1
  /\ calls = <<>>
  /\ timer = TimerInit

TimerStep(fn, tm) ==
  /\ timer' = tm
  /\ last' = [fn |-> fn]
  /\ UNCHANGED <<role, store, paxos, out, nreplies, committed, nextId,
                 calls>>

StartTick ==
  /\ timer.created < MaxEvents
  /\ TimerStep("start_tick", start_tick(timer))

SetUpdatePeriod(t) == TimerStep("set_update_period", set_update_period(timer, t))

CancelTick == TimerStep("cancel_tick", cancel_tick(timer))

\* tick() called by the monitor.
Tick ==
  /\ timer.created < MaxEvents
  /\ timer.upkeep < MaxEvents
  /\ TimerStep("tick", tick(timer))

Shutdown == TimerStep("shutdown", shutdown(timer))

\* The timer takes an armed event off the schedule when its time has come
\* and completes it with 0.
Fire(e) ==
  /\ e \in timer.armed
  /\ timer.created < MaxEvents
  /\ timer.upkeep < MaxEvents
  /\ TimerStep("fire",
               tick_callback([timer EXCEPT !.armed = @ \ {e}], 0))

\* A cancelled event completed with an error.
FireCancelled(e) ==
  /\ e \in timer.cancelled
  /\ TimerStep("fire_cancelled",
               tick_callback([timer EXCEPT !.cancelled = @ \ {e}], -1))

TickNext ==
  \/ StartTick
  \/ \E t \in Periods : SetUpdatePeriod(t)
  \/ CancelTick
  \/ Tick
  \/ Shutdown
  \/ \E e \in 1..MaxEvents : Fire(e)
  \/ \E e \in 1..MaxEvents : FireCancelled(e)

TickSpec == TickInit /\ [][TickNext]_vars

-----------------------------------------------------------------------------
(* config-key dump over namespaces of every byte value *)

Bytes == 0..255

\* "a", "ab", "b", "bin", "txt"
KA == <<97>>
KAB == <<97, 98>>
KB == <<98>>
KBin == <<98, 105, 110>>
KTxt == <<116, 120, 116>>

\* The values kept under the keys, for a byte b: b alone, the complement
\* of b after "h" and a newline, the complement of b after a tab, two
\* control bytes, and "hello\n".
DumpValues(b) ==
  {<<KA, <<b>> >>,
   <<KAB, <<104, 10, 255 - b>> >>,
   <<KB, <<9, 255 - b>> >>,
   <<KBin, <<0, 1>> >>,
   <<KTxt, <<104, 101, 108, 108, 111, 10>> >>}

DumpStores == {MkStore(S) : S \in UNION {SUBSET DumpValues(b) : b \in Bytes}}

\* Prefix filters: none, "a", "ab", "b", "c", "aa", "bi", "abc".
DumpPrefixes ==
  {<<>>, KA, KAB, KB, <<99>>, <<97, 97>>, <<98, 105>>, <<97, 98, 99>>}

DumpInit ==
  /\ role = "leader"
  /\ store \in DumpStores
  /\ paxos = PaxosInit
  /\ out = Silent
  /\ last = NoOp
  /\ nreplies = [i \in 1..MaxOps |-> 0]
  /\ committed = InitialLog(store)
  /\ nextId = 1
  /\ calls = <<>>
  /\ timer = TimerInit

\* store_dump(ss, prefix): out is what the formatter was given.
Dump(prefix) ==
  /\ out' = [dump |-> store_dump(prefix)]
  /\ last' = [fn |-> "store_dump", prefix |-> prefix]
  /\ UNCHANGED <<role, store, paxos, nreplies, committed, nextId, calls,
                 timer>>

DumpNext == \E prefix \in DumpPrefixes : Dump(prefix)

DumpSpec == DumpInit /\ [][DumpNext]_vars

-----------------------------------------------------------------------------
(* What the claims are stated with *)

\* The call of service_dispatch a step makes, if it makes one: of a command
\* that arrives (it gets the id nextId), or of a request that waited for
\* readable.  px is the Paxos front-end when the call starts.
Calls ==
  IF last' = NoOp THEN {}
  ELSE IF last'.id = nextId
       THEN {[op |-> last', px |-> paxos, retry |-> FALSE]}
       ELSE {[op |-> last',
              px |-> [paxos EXCEPT !.waiting = Tail(@)], retry |-> TRUE]}

\* The step is the call c.
Ran(c) ==
  /\ IF c.retry
     THEN in_quorum /\ paxos.waiting # <<>> /\ c.op = Head(paxos.waiting)
          /\ nextId' = nextId
     ELSE nextId <= MaxOps /\ nextId' = nextId + 1
          /\ \E r \in Requests : c.op = MkOp(nextId, r)
  /\ Dispatch(c.px, c.op)

\* The operations staged and not yet committed, oldest first.
Staged(px) == Flatten(px.proposals) \o px.pending

\* The completions queued and not yet run.
RECURSIVE FlattenFins(_)
FlattenFins(batches) ==
  IF batches = <<>> THEN <<>>
  ELSE Head(batches).fins \o FlattenFins(Tail(batches))

Queued(px) == FlattenFins(px.proposals) \o px.finishers

IsWrite(op) == op.prefix \in PutVerbs \cup DelVerbs

IsRead(op) == op.prefix \in ReadVerbs

\* The value a put asks to store: the val field, or without one the payload.
ReqValue(op) == IF op.hasval THEN op.val ELSE op.data

\* The writes a leader takes: a put within the size limit, a del of a
\* committed key.
LeaderAccepts(op) ==
  \/ op.prefix \in PutVerbs /\ Len(ReqValue(op)) <= MaxEntrySize
  \/ op.prefix \in DelVerbs /\ op.key \in DOMAIN store

\* How many operations of `ops` request id staged.
StagedBy(ops, id) == Cardinality({i \in 1..Len(ops) : ops[i].by = id})

-----------------------------------------------------------------------------
(* C1 *)

\* C1: a put/set/del/rm dispatched on a peon stages nothing, queues no
\* completion, proposes nothing and sends no reply: it forwards the request
\* as it came, once.  The same command dispatched on the leader stages one
\* operation when the leader accepts it (none when it rejects it), and no
\* request ever has more than one operation staged or committed.
C1_PeonForwardsWrite ==
  /\ [][\A c \in Calls :
          (Ran(c) /\ c.op.json_ok /\ IsWrite(c.op)) =>
            /\ is_peon =>
                 /\ paxos' = c.px
                 /\ store' = store
                 /\ committed' = committed
                 /\ nreplies' = nreplies
                 /\ out' = [reply |-> <<>>, fwd |-> <<c.op>>]
            /\ is_leader =>
                 /\ out'.fwd = <<>>
                 /\ StagedBy(Staged(paxos'), c.op.id) =
                      IF LeaderAccepts(c.op) THEN 1 ELSE 0
                 /\ Len(Staged(paxos')) =
                      Len(Staged(paxos)) + StagedBy(Staged(paxos'), c.op.id)]_vars
  /\ [](\A id \in 1..MaxOps :
          StagedBy(Staged(paxos) \o committed, id) <= 1)

\* A peon has just forwarded a write and nothing is staged.
C1_Witness ==
  /\ is_peon
  /\ Len(out.fwd) = 1
  /\ IsWrite(out.fwd[1])
  /\ out.reply = <<>>
  /\ Staged(paxos) = <<>>
  /\ Queued(paxos) = <<>>

-----------------------------------------------------------------------------
(* C2 *)

\* The operation and the completion an accepted write asks for.
Mutation(op) ==
  IF op.prefix \in PutVerbs
  THEN [kind |-> "put", key |-> op.key, val |-> ReqValue(op), by |-> op.id]
  ELSE [kind |-> "erase", key |-> op.key, val |-> <<>>, by |-> op.id]

Completion(op) ==
  [op |-> [id |-> op.id, src |-> op.src], rc |-> 0,
   rs |-> IF op.prefix \in PutVerbs THEN <<"set ", op.key>>
          ELSE <<"key deleted">>]

HasCompletion(id) ==
  \E i \in 1..Len(Queued(paxos)) : Queued(paxos)[i].op.id = id

HasClientCompletion(id) ==
  \E i \in 1..Len(Queued(paxos)) :
    Queued(paxos)[i].op.id = id /\ Queued(paxos)[i].op.src = "client"

\* Dispatch of a write the leader accepts sends nothing; the operation is
\* staged and the completion queued before trigger_propose runs, so the
\* batch it hands to consensus (or, while plugged, leaves pending) ends with
\* both.
C2_DispatchDefers ==
  \A c \in Calls :
    (c.op.json_ok /\ IsWrite(c.op) /\ is_leader /\ LeaderAccepts(c.op)
       /\ Ran(c)) =>
      /\ out' = Silent
      /\ nreplies' = nreplies
      /\ store' = store
      /\ committed' = committed
      /\ paxos' =
           IF c.px.plugged
           THEN [c.px EXCEPT !.pending = Append(@, Mutation(c.op)),
                             !.finishers = Append(@, Completion(c.op))]
           ELSE [c.px EXCEPT
                   !.pending = <<>>,
                   !.finishers = <<>>,
                   !.proposals =
                     Append(@, [txn  |-> Append(c.px.pending, Mutation(c.op)),
                                fins |-> Append(c.px.finishers,
                                                Completion(c.op))])]

\* A request whose completion is queued gets a frame only in the step that
\* commits the batch holding its completion and its operation; the frame is
\* the completion's, and it is the request's first.
C2_ReplyAtCommit ==
  \A i \in 1..Len(Queued(paxos)) :
    LET cb == Queued(paxos)[i]
        id == cb.op.id
    IN  nreplies'[id] # nreplies[id] =>
          /\ paxos.proposals # <<>>
          /\ LET b == Head(paxos.proposals)
             IN  /\ \E j \in 1..Len(b.fins) : b.fins[j] = cb
                 /\ StagedBy(b.txn, id) = 1
                 /\ committed' = committed \o b.txn
          /\ StagedBy(committed', id) = 1
          /\ nreplies[id] = 0
          /\ nreplies'[id] = 1
          /\ \E j \in 1..Len(out'.reply) :
               out'.reply[j] =
                 [id |-> id, ret |-> cb.rc, rs |-> cb.rs, rdata |-> <<>>]

\* C2: a put/set, or a del/rm of an existing key, accepted on the leader is
\* not answered by dispatch: its operation is staged, then its completion
\* queued, then trigger_propose called; the client's reply is sent once, by
\* the commit of the transaction that holds the operation, and (consensus
\* committing what is proposed) it is sent.
C2_DeferredReply ==
  /\ [][C2_DispatchDefers /\ C2_ReplyAtCommit]_vars
  /\ [](\A id \in 1..MaxOps :
          /\ nreplies[id] <= 1
          /\ HasCompletion(id) => nreplies[id] = 0
          /\ Cardinality({i \in 1..Len(Queued(paxos)) :
                            Queued(paxos)[i].op.id = id}) <= 1)
  /\ \A id \in 1..MaxOps :
       HasClientCompletion(id) ~>
         (nreplies[id] = 1 /\ StagedBy(committed, id) = 1)

\* The commit of a client's write has just sent its reply.
C2_Witness ==
  \E j \in 1..Len(out.reply) :
    /\ out.reply[j].rs \in {<<"set ", K1>>, <<"key deleted">>}
    /\ out.reply[j].ret = 0
    /\ nreplies[out.reply[j].id] = 1
    /\ StagedBy(committed, out.reply[j].id) = 1

-----------------------------------------------------------------------------
(* C3 *)

\* What the commit history says of key k: the index of its last operation
\* (0 when it has none), whether that leaves k present, and with what value.
LastIdx(log, k) ==
  LET S == {i \in 1..Len(log) : log[i].key = k}
  IN  IF S = {} THEN 0 ELSE CHOOSE i \in S : \A j \in S : j <= i

Live(log, k) == LastIdx(log, k) # 0 /\ log[LastIdx(log, k)].kind = "put"

Value(log, k) == log[LastIdx(log, k)].val

\* The reply frame of call c, which has one.
Frame(c) == out'.reply[1]

\* The keys a list or dump payload names.
Named(entries) == {entries[i] : i \in 1..Len(entries)}

DumpedKeys(entries) == {entries[i][1] : i \in 1..Len(entries)}

\* C3: get, exists, list, ls and dump observe committed state only: what each
\* answers is what the commit history alone determines, whatever is staged in
\* the pending transaction or proposed and not yet committed.
C3_ReadsSeeCommitted ==
  [][\A c \in Calls :
       (c.op.json_ok /\ IsRead(c.op) /\ c.op.src = "client" /\ in_quorum
          /\ Ran(c)) =>
         /\ Len(out'.reply) = 1
         /\ c.op.prefix = "config-key get" =>
              IF Live(committed, c.op.key)
              THEN Frame(c).ret = 0 /\ Frame(c).rdata = Value(committed, c.op.key)
              ELSE Frame(c).ret < 0 /\ Frame(c).rdata = <<>>
         /\ c.op.prefix = "config-key exists" =>
              (Frame(c).rs[4] = " exists" <=> Live(committed, c.op.key))
         /\ c.op.prefix \in {"config-key list", "config-key ls"} =>
              Named(Frame(c).rdata[2]) = {k \in Keys : Live(committed, k)}
         /\ c.op.prefix = "config-key dump" =>
              LET es == Frame(c).rdata[2]
              IN  /\ DumpedKeys(es) = {k \in Keys : /\ Live(committed, k)
                                                   /\ IsPrefix(c.op.key, k)}
                  /\ \A i \in 1..Len(es) :
                       \/ es[i][2] = Value(committed, es[i][1])
                       \/ es[i][2] = <<"<<< binary blob of length ",
                                       Len(Value(committed, es[i][1])),
                                       " >>>">>]_vars

\* A get has just been answered without the value a put has staged for its
\* key.
C3_Witness ==
  /\ Len(out.reply) = 1
  /\ Len(out.reply[1].rs) >= 2
  /\ out.reply[1].rs[1] \in {"obtained '", "error obtaining '"}
  /\ \E i \in 1..Len(Staged(paxos)) :
       /\ Staged(paxos)[i].kind = "put"
       /\ Staged(paxos)[i].key = out.reply[1].rs[2]
       /\ Staged(paxos)[i].val # out.reply[1].rdata
       /\ Staged(paxos)[i].val # <<>>

-----------------------------------------------------------------------------
(* C4 *)

\* C4: a put/set the leader accepts stages its value byte for byte, whatever
\* the store holds; and once the transactions are committed get(K) returns
\* the value of the last put to K in commit order, however the operations
\* were spread over transactions (and fails with ENOENT when K was never
\* written or was erased last).
C4_LastPutWins ==
  /\ [][\A c \in Calls :
          (c.op.json_ok /\ c.op.prefix \in PutVerbs /\ is_leader
             /\ Len(ReqValue(c.op)) <= MaxEntrySize /\ Ran(c)) =>
            Staged(paxos') =
              Append(Staged(c.px),
                     [kind |-> "put", key |-> c.op.key,
                      val |-> ReqValue(c.op), by |-> c.op.id])]_vars
  /\ [](\A k \in Keys :
          store_get(k) = IF Live(committed, k)
                         THEN [r |-> 0, bl |-> Value(committed, k)]
                         ELSE [r |-> -ENOENT, bl |-> <<>>])

\* Two puts of different values to one key are committed, and get returns
\* the second.
C4_Witness ==
  \E i, j \in 1..Len(committed) :
    /\ i < j
    /\ j = LastIdx(committed, committed[j].key)
    /\ committed[i].key = committed[j].key
    /\ committed[i].kind = "put" /\ committed[j].kind = "put"
    /\ committed[i].by # 0 /\ committed[j].by # 0
    /\ committed[i].val # committed[j].val
    /\ store_get(committed[j].key) = [r |-> 0, bl |-> committed[j].val]
    /\ is_binary_string(committed[j].val)

-----------------------------------------------------------------------------
(* C5 *)

\* C5: a del/rm on the leader for a key that is not committed is answered
\* within dispatch with status 0 and "no such key" (a peer monitor, as for
\* every command, being sent no frame); no erase is staged, no completion
\* queued, nothing proposed; the store and the pending transaction are as
\* before.
C5_DelAbsent ==
  [][\A c \in Calls :
       (c.op.json_ok /\ c.op.prefix \in DelVerbs /\ role = "leader"
          /\ ~Live(committed, c.op.key) /\ Ran(c)) =>
         /\ paxos' = c.px
         /\ store' = store
         /\ committed' = committed
         /\ out'.fwd = <<>>
         /\ out'.reply =
              IF c.op.src = "client"
              THEN <<[id |-> c.op.id, ret |-> 0,
                      rs |-> <<"no such key '", c.op.key, "'">>,
                      rdata |-> <<>>]>>
              ELSE <<>>]_vars

\* The leader has just answered a del of a missing key.
C5_Witness ==
  /\ role = "leader"
  /\ Len(out.reply) = 1
  /\ out.reply[1].ret = 0
  /\ Len(out.reply[1].rs) = 3
  /\ out.reply[1].rs[1] = "no such key '"
  /\ out.reply[1].rs[2] \notin DOMAIN store
  /\ Staged(paxos) = <<>>
  /\ Queued(paxos) = <<>>

-----------------------------------------------------------------------------
(* C6 *)

\* C6: while the monitor is neither leader nor peon every request dispatched,
\* read or write, well-formed or not, is parked with its retry callback and
\* nothing else happens: no frame is sent, nothing is staged, queued,
\* proposed or forwarded.
C6_NotInQuorumParks ==
  [][\A c \in Calls :
       (role \notin {"leader", "peon"} /\ Ran(c)) =>
         /\ paxos' = [c.px EXCEPT !.waiting = Append(@, c.op)]
         /\ out' = Silent
         /\ nreplies' = nreplies
         /\ store' = store
         /\ committed' = committed]_vars

\* Out of quorum, a read and a write are parked and nothing was sent or
\* staged.
C6_Witness ==
  /\ role = "probing"
  /\ Len(paxos.waiting) = 2
  /\ IsRead(paxos.waiting[1])
  /\ IsWrite(paxos.waiting[2])
  /\ \A i \in 1..MaxOps : nreplies[i] = 0
  /\ Staged(paxos) = <<>>
  /\ out = Silent

-----------------------------------------------------------------------------
(* C7 *)

Parked(id) == \E i \in 1..Len(paxos.waiting) : paxos.waiting[i].id = id

\* What the retry of c.op must come to, for every way a request that just
\* arrived is handled: dropped undecoded, forwarded, answered, or deferred
\* to the commit of the one operation it staged.
Handled(c) ==
  \/ ~c.op.json_ok /\ paxos' = c.px /\ out' = Silent
  \/ /\ c.op.json_ok /\ IsWrite(c.op) /\ role = "peon"
     /\ paxos' = c.px
     /\ out' = [reply |-> <<>>, fwd |-> <<c.op>>]
  \/ /\ c.op.json_ok /\ (IsRead(c.op) \/ role = "leader")
     /\ paxos' = c.px
     /\ out'.fwd = <<>>
     /\ IF c.op.src = "client"
        THEN Len(out'.reply) = 1 /\ out'.reply[1].id = c.op.id
             /\ nreplies'[c.op.id] = 1
        ELSE out'.reply = <<>>
  \/ /\ c.op.json_ok /\ IsWrite(c.op) /\ role = "leader"
     /\ out' = Silent
     /\ StagedBy(Staged(paxos'), c.op.id) = 1
     /\ HasCompletion(c.op.id)'

\* C7: a request parked out of quorum is neither answered nor acted on
\* while it waits; its retry, which runs in quorum, takes it off the waiting
\* list and handles it as a request that just arrived, never parking it
\* again; and if the monitor is in quorum again and again, a parked request
\* is in the end retried and, where it staged a write, committed.
C7_ParkedIsRetried ==
  /\ [](\A id \in 1..MaxOps :
          Parked(id) =>
            /\ nreplies[id] = 0
            /\ StagedBy(Staged(paxos) \o committed, id) = 0
            /\ ~HasCompletion(id))
  /\ [][\A c \in Calls :
          (c.retry /\ Ran(c)) =>
            /\ role \in {"leader", "peon"}
            /\ ~Parked(c.op.id)'
            /\ Handled(c)]_vars
  /\ ([]<>(role \in {"leader", "peon"})) =>
       \A id \in 1..MaxOps :
         Parked(id) ~> (~Parked(id) /\ ~HasCompletion(id))

\* A get that was parked while a later request arrived has been retried in
\* quorum and answered.
C7_Witness ==
  \E id \in 1..MaxOps :
    /\ nreplies[id] = 1
    /\ Len(out.reply) = 1
    /\ out.reply[1].id = id
    /\ Len(out.reply[1].rs) = 3
    /\ out.reply[1].rs[1] = "obtained '"
    /\ nextId = id + 2

-----------------------------------------------------------------------------
(* C8 *)

Oversized(op) == op.prefix \in PutVerbs /\ Len(ReqValue(op)) > MaxEntrySize

\* The rejection of an oversized put.
RejectsTooLarge(c) ==
  /\ paxos' = c.px
  /\ store' = store
  /\ committed' = committed
  /\ out'.fwd = <<>>
  /\ c.op.src = "client" =>
       /\ Len(out'.reply) = 1
       /\ out'.reply[1].id = c.op.id
       /\ out'.reply[1].ret = -EFBIG
       /\ out'.reply[1].rdata = <<>>
  /\ c.op.src = "mon" => out'.reply = <<>>

\* C8 as stated: leader or not, the member that receives an oversized put
\* rejects it itself and never forwards it.
C8_Original ==
  [][\A c \in Calls :
       (c.op.json_ok /\ Oversized(c.op) /\ role \in {"leader", "peon"}
          /\ Ran(c)) => RejectsTooLarge(c)]_vars

\* C8, amended: the leader rejects an oversized put within dispatch, with
\* -EFBIG, staging, queueing and proposing nothing; a peon does not look at
\* the size: it forwards the request as it came, once, and sends no frame.
C8_TooLarge ==
  [][\A c \in Calls :
       (c.op.json_ok /\ Oversized(c.op) /\ Ran(c)) =>
         /\ role = "leader" => RejectsTooLarge(c)
         /\ role = "peon" =>
              /\ paxos' = c.px
              /\ store' = store
              /\ committed' = committed
              /\ nreplies' = nreplies
              /\ out' = [reply |-> <<>>, fwd |-> <<c.op>>]]_vars

\* The leader has just rejected an oversized put.
C8_Witness ==
  /\ role = "leader"
  /\ Len(out.reply) = 1
  /\ out.reply[1].ret = -EFBIG
  /\ Staged(paxos) = <<>>
  /\ Queued(paxos) = <<>>

-----------------------------------------------------------------------------
(* C9 *)

\* C9: get, exists, list, ls and dump dispatched in quorum, on the leader or
\* on a peon, are answered within dispatch (one frame for a client, none for
\* a peer monitor): never forwarded, nothing staged, queued or proposed, the
\* committed namespace unchanged.
C9_ReadsAreLocal ==
  [][\A c \in Calls :
       (c.op.json_ok /\ IsRead(c.op) /\ role \in {"leader", "peon"}
          /\ Ran(c)) =>
         /\ paxos' = c.px
         /\ store' = store
         /\ committed' = committed
         /\ out'.fwd = <<>>
         /\ c.op.src = "client" =>
              /\ Len(out'.reply) = 1
              /\ out'.reply[1].id = c.op.id
              /\ nreplies'[c.op.id] = nreplies[c.op.id] + 1
         /\ c.op.src = "mon" => out'.reply = <<>> /\ nreplies' = nreplies]_vars

\* A peon has just answered a get itself, while a write is staged.
C9_Witness ==
  /\ role = "peon"
  /\ out.fwd = <<>>
  /\ Len(out.reply) = 1
  /\ Len(out.reply[1].rs) = 3
  /\ out.reply[1].rs[1] = "obtained '"
  /\ Staged(paxos) # <<>>

-----------------------------------------------------------------------------
(* C10 *)

NeverWritten(k) == LastIdx(committed, k) = 0

\* C10 as stated: for a key never written get fails with a negative status
\* and no payload, and exists says so in its text without the NotFound
\* status.
C10_Original ==
  [][\A c \in Calls :
       (c.op.json_ok /\ c.op.src = "client" /\ role \in {"leader", "peon"}
          /\ c.op.key \in Keys /\ NeverWritten(c.op.key) /\ Ran(c)) =>
         /\ c.op.prefix = "config-key get" =>
              /\ out'.reply[1].ret = -ENOENT
              /\ out'.reply[1].rdata = <<>>
         /\ c.op.prefix = "config-key exists" =>
              /\ out'.reply[1].rs[4] = " doesn't exist"
              /\ out'.reply[1].ret # -ENOENT]_vars

\* C10, amended: for a key never written get replies -ENOENT with an empty
\* payload, and exists replies "doesn't exist" with the same status,
\* -ENOENT.
C10_NotFound ==
  [][\A c \in Calls :
       (c.op.json_ok /\ c.op.src = "client" /\ role \in {"leader", "peon"}
          /\ c.op.key \in Keys /\ NeverWritten(c.op.key) /\ Ran(c)) =>
         /\ c.op.prefix = "config-key get" =>
              out'.reply =
                <<[id |-> c.op.id, ret |-> -ENOENT,
                   rs |-> <<"error obtaining '", c.op.key, "': ",
                            cpp_strerror(-ENOENT)>>,
                   rdata |-> <<>>]>>
         /\ c.op.prefix = "config-key exists" =>
              out'.reply =
                <<[id |-> c.op.id, ret |-> -ENOENT,
                   rs |-> <<"key '", c.op.key, "'", " doesn't exist">>,
                   rdata |-> <<>>]>>]_vars

\* exists has just answered "doesn't exist", with -ENOENT, for a key never
\* written.
C10_Witness ==
  /\ Len(out.reply) = 1
  /\ Len(out.reply[1].rs) = 4
  /\ out.reply[1].rs[4] = " doesn't exist"
  /\ out.reply[1].ret = -ENOENT
  /\ NeverWritten(out.reply[1].rs[2])

-----------------------------------------------------------------------------
(* C11 *)

\* The completions of the proposal a commit would run.
HeadFins == IF paxos.proposals = <<>> THEN <<>> ELSE Head(paxos.proposals).fins

-----------------------------------------------------------------------------
(* C12 *)

\* C12: a command that does not decode, dispatched in quorum, is dropped:
\* no frame is sent, it is neither forwarded nor put on the waiting list,
\* and nothing is staged, queued or proposed.
C12_MalformedDropped ==
  [][\A c \in Calls :
       (~c.op.json_ok /\ role \in {"leader", "peon"} /\ Ran(c)) =>
         /\ paxos' = c.px
         /\ out' = Silent
         /\ nreplies' = nreplies
         /\ store' = store
         /\ committed' = committed]_vars

\* The leader has just dropped a command that does not decode.
C12_Witness ==
  /\ last # NoOp
  /\ ~last.json_ok
  /\ role = "leader"
  /\ out = Silent
  /\ ~Parked(last.id)
  /\ Staged(paxos) = <<>>

-----------------------------------------------------------------------------
(* C20 *)

\* Operation kind on key k is staged and not committed.
StagedOn(px, kind, k) ==
  \E i \in 1..Len(Staged(px)) :
    Staged(px)[i].kind = kind /\ Staged(px)[i].key = k

\* C20: del/rm on the leader tests the committed store, not what is staged.
\* With a put of the key staged and the key not committed, it answers "no
\* such key" with status 0 and stages nothing, so the put stays the last
\* staged write of the key; with the key committed and an erase of it
\* already staged, it stages one more erase and queues one more "key
\* deleted" completion.
C20_DelChecksCommitted ==
  [][\A c \in Calls :
       (c.op.json_ok /\ c.op.prefix \in DelVerbs /\ role = "leader"
          /\ c.op.src = "client" /\ Ran(c)) =>
         /\ (StagedOn(c.px, "put", c.op.key) /\ c.op.key \notin DOMAIN store)
              =>
              /\ paxos' = c.px
              /\ out' = [fwd |-> <<>>,
                         reply |-> <<[id |-> c.op.id, ret |-> 0,
                                      rs |-> <<"no such key '", c.op.key,
                                               "'">>,
                                      rdata |-> <<>>]>>]
         /\ (StagedOn(c.px, "erase", c.op.key) /\ c.op.key \in DOMAIN store)
              =>
              /\ Staged(paxos') = Append(Staged(c.px), Mutation(c.op))
              /\ Queued(paxos') = Append(Queued(c.px), Completion(c.op))
              /\ out' = Silent]_vars

\* A del has just been answered "no such key" while a put of that key is
\* staged.
C20_Witness ==
  /\ role = "leader"
  /\ Len(out.reply) = 1
  /\ Len(out.reply[1].rs) = 3
  /\ out.reply[1].rs[1] = "no such key '"
  /\ out.reply[1].ret = 0
  /\ StagedOn(paxos, "put", out.reply[1].rs[2])
  /\ ~StagedOn(paxos, "erase", out.reply[1].rs[2])

-----------------------------------------------------------------------------
(* What the OSD lifecycle claims are stated with *)

BeginsWith(k, p) == Len(k) >= Len(p) /\ SubSeq(k, 1, Len(p)) = p

\* "dm-crypt/osd/<uuid>/"
DmPrefix(uuid) == DmcryptRoot \o uuid \o <<47>>

\* "daemon-private/osd.<id>/" for the ids of the model: "1", "10".
DaemonPrefix(id) ==
  DaemonRoot \o (IF id = 1 THEN <<49>> ELSE <<49, 48>>) \o <<47>>

\* The committed keys that begin with p.
KeysUnder(p) == {k \in DOMAIN store : BeginsWith(k, p)}

\* The step is a call of fn.
Called(fn) == "fn" \in DOMAIN last' /\ last'.fn = fn

\* The do_osd_destroy calls made so far, by their place in history.
Destroys == {d \in 1..Len(calls) : calls[d].fn = "do_osd_destroy"}

\* The erases of ops that call d staged.
ErasesBy(ops, d) ==
  SelectSeq(ops, LAMBDA m : m.kind = "erase" /\ m.by = d)

\* What a step staged: the operations of paxos' after those staged before.
NewlyStaged ==
  SubSeq(Staged(paxos'), Len(Staged(paxos)) + 1, Len(Staged(paxos')))

\* The step commits the oldest proposal.
Commits ==
  /\ last' = NoOp
  /\ paxos.proposals # <<>>
  /\ paxos'.proposals = Tail(paxos.proposals)

\* Operation kind on key k is at place i of the transaction being committed.
InBatch(i, kind, k) ==
  /\ i \in 1..Len(Head(paxos.proposals).txn)
  /\ Head(paxos.proposals).txn[i].kind = kind
  /\ Head(paxos.proposals).txn[i].key = k

-----------------------------------------------------------------------------
(* C13 *)

\* C13: do_osd_destroy stages the erases of the committed keys under
\* dm-crypt/osd/<uuid>/ and then of those under daemon-private/osd.<id>/
\* into the one pending transaction, and calls trigger_propose once, after
\* both: what it staged lies in one transaction (the pending one while
\* plugged, else the proposal just made), so at no time are some of a
\* destroy's erases committed and others not.
C13_DestroyIsOneTransaction ==
  /\ [][\A id \in OsdIds, uuid \in Uuids :
          (Called("do_osd_destroy") /\ last'.id = id /\ last'.uuid = uuid) =>
            LET d == Len(calls) + 1
                new == NewlyStaged
                dm == KeysUnder(DmPrefix(uuid))
                dn == KeysUnder(DaemonPrefix(id))
            IN  /\ SubSeq(Staged(paxos'), 1, Len(Staged(paxos)))
                     = Staged(paxos)
                /\ Len(new) = Cardinality(dm) + Cardinality(dn)
                /\ \A i \in 1..Len(new) :
                     /\ new[i].kind = "erase" /\ new[i].by = d
                     /\ new[i].key \in
                          IF i <= Cardinality(dm) THEN dm ELSE dn
                /\ {new[i].key : i \in 1..Len(new)} = dm \cup dn
                /\ IF paxos.plugged
                   THEN /\ paxos'.pending = paxos.pending \o new
                        /\ paxos'.proposals = paxos.proposals
                   ELSE /\ paxos'.pending = <<>>
                        /\ new # <<>> =>
                             paxos'.proposals =
                               Append(paxos.proposals,
                                      [txn |-> paxos.pending \o new,
                                       fins |-> paxos.finishers])
                /\ Queued(paxos') = Queued(paxos)
                /\ store' = store /\ committed' = committed]_vars
  /\ [](\A d \in Destroys :
          ErasesBy(committed, d) = <<>> \/ ErasesBy(Staged(paxos), d) = <<>>)
  /\ [][Commits =>
          \A d \in Destroys :
            LET b == Head(paxos.proposals).txn
            IN  ErasesBy(b, d) # <<>> =>
                  /\ ErasesBy(b, d) = ErasesBy(Staged(paxos), d)
                  /\ ErasesBy(committed', d) = ErasesBy(b, d)]_vars

\* A destroy that erased keys under both prefixes is committed whole.
C13_Witness ==
  \E d \in Destroys :
    LET e == ErasesBy(committed, d)
    IN  /\ \E i \in 1..Len(e) : BeginsWith(e[i].key, DmcryptRoot)
        /\ \E i \in 1..Len(e) : BeginsWith(e[i].key, DaemonRoot)
        /\ ErasesBy(Staged(paxos), d) = <<>>

-----------------------------------------------------------------------------
(* C14 *)

\* C14: validate_osd_destroy(id, uuid) returns 0 if some committed key
\* begins with dm-crypt/osd/<uuid>/ or with daemon-private/osd.<id>/, and
\* -ENOENT if none does; it changes neither the store nor Paxos.
C14_ValidateDestroy ==
  [][\A id \in OsdIds, uuid \in Uuids :
       (Called("validate_osd_destroy") /\ last'.id = id
          /\ last'.uuid = uuid) =>
         /\ out'.r =
              IF KeysUnder(DmPrefix(uuid)) \cup KeysUnder(DaemonPrefix(id))
                   # {}
              THEN 0 ELSE -ENOENT
         /\ paxos' = paxos
         /\ store' = store
         /\ committed' = committed
         /\ calls' = calls]_vars

\* validate_osd_destroy has just returned -ENOENT for osd.1 while a key of
\* osd.10 is committed.
C14_Witness ==
  /\ "fn" \in DOMAIN last
  /\ last.fn = "validate_osd_destroy"
  /\ last.id = 1
  /\ out.r = -ENOENT
  /\ KeysUnder(DaemonPrefix(10)) # {}

-----------------------------------------------------------------------------
(* C15 *)

\* The erases store_delete_prefix(t, p) of call d may stage: one for each
\* committed key beginning with p, and for no other key.
ErasesExactly(d, p) ==
  LET e == SelectSeq(NewlyStaged, LAMBDA m : BeginsWith(m.key, p))
  IN  /\ {e[i].key : i \in 1..Len(e)} = KeysUnder(p)
      /\ Len(e) = Cardinality(KeysUnder(p))
      /\ \A i \in 1..Len(e) : e[i].kind = "erase" /\ e[i].by = d

\* At the call: do_osd_destroy's two store_delete_prefix calls stage
\* exactly the erases of the committed keys under their prefixes.
C15_AtCall ==
  \A id \in OsdIds, uuid \in Uuids :
    (Called("do_osd_destroy") /\ last'.id = id /\ last'.uuid = uuid) =>
      /\ ErasesExactly(Len(calls) + 1, DmPrefix(uuid))
      /\ ErasesExactly(Len(calls) + 1, DaemonPrefix(id))
      /\ \A i \in 1..Len(NewlyStaged) :
           \/ BeginsWith(NewlyStaged[i].key, DmPrefix(uuid))
           \/ BeginsWith(NewlyStaged[i].key, DaemonPrefix(id))

\* The prefixes of the destroy call d.
PrefixesOf(d) == {DmPrefix(calls[d].uuid), DaemonPrefix(calls[d].id)}

\* Every key the transaction being committed holds no operation for keeps
\* its value.
OthersKept ==
  \A k \in DOMAIN store :
    (\A i \in 1..Len(Head(paxos.proposals).txn) :
       Head(paxos.proposals).txn[i].key # k) =>
      k \in DOMAIN store' /\ store'[k] = store[k]

\* C15 as stated: exactly the committed keys under the prefix are erased,
\* and once that transaction commits no committed key begins with the
\* prefix.
C15_Original ==
  [][/\ C15_AtCall
     /\ Commits =>
          /\ \A d \in Destroys :
               ErasesBy(Head(paxos.proposals).txn, d) # <<>> =>
                 \A p \in PrefixesOf(d) :
                   \A k \in DOMAIN store' : ~BeginsWith(k, p)
          /\ OthersKept]_vars

\* C15, amended: exactly the committed keys under the prefix are erased.
\* Once that transaction commits a key it erased is gone unless a put
\* staged after the erase in the same transaction restored it; no committed
\* key begins with the prefix provided the transaction holds no put of such
\* a key and no such key was committed since the call (a key whose put was
\* staged and not committed at the call is not revisited and survives);
\* every key the transaction holds no operation for keeps its value.
C15_DeletePrefix ==
  [][/\ C15_AtCall
     /\ Commits =>
          /\ \A d \in Destroys :
               LET b == Head(paxos.proposals).txn
                   e == ErasesBy(b, d)
               IN  /\ \A i \in 1..Len(b) :
                        (b[i].kind = "erase" /\ b[i].by = d
                           /\ b[i].key \in DOMAIN store') =>
                          \E j \in (i + 1)..Len(b) : InBatch(j, "put", b[i].key)
                   /\ e # <<>> =>
                        \A p \in PrefixesOf(d) :
                          ((\A j \in 1..Len(b) :
                              ~(b[j].kind = "put" /\ BeginsWith(b[j].key, p)))
                           /\ KeysUnder(p) \subseteq
                                {e[i].key : i \in 1..Len(e)}) =>
                            \A k \in DOMAIN store' : ~BeginsWith(k, p)
          /\ OthersKept]_vars

\* A destroy is committed: no key under its prefixes is left and a key of
\* no OSD kept its value.
C15_Witness ==
  /\ last = NoOp
  /\ K1 \in DOMAIN store
  /\ store[K1] = ValA
  /\ \E d \in Destroys :
       /\ Len(ErasesBy(committed, d)) >= 2
       /\ \A p \in PrefixesOf(d) : KeysUnder(p) = {}

-----------------------------------------------------------------------------
(* C16 *)

\* validate_osd_new was called before with this pair and returned r.
ValidatedBefore(uuid, key, r) ==
  \E i \in 1..Len(calls) :
    calls[i] = [fn |-> "validate_osd_new", uuid |-> uuid, key |-> key,
                r |-> r]

\* What validate_osd_new answers from the committed store, and that it
\* changes nothing.
C16_Answer(uuid, key) ==
  /\ out'.r =
       IF LuksKey(uuid) \notin DOMAIN store THEN 0
       ELSE IF store[LuksKey(uuid)] = key THEN EEXIST
       ELSE -EEXIST
  /\ store' = store
  /\ paxos' = paxos
  /\ committed' = committed

\* C16 as stated: fresh-create, idempotent-success or conflict by the
\* stored secret, nothing changed; and a second call with the same pair,
\* the first having reported fresh-create, reports idempotent-success.
C16_Original ==
  [][\A uuid \in Uuids, key \in Secrets :
       (Called("validate_osd_new") /\ last'.uuid = uuid /\ last'.key = key)
         =>
         /\ C16_Answer(uuid, key)
         /\ ValidatedBefore(uuid, key, 0) => out'.r = EEXIST]_vars

\* C16, amended: validate_osd_new returns 0 when no secret is committed for
\* uuid, EEXIST (not an error, not 0) when the committed secret equals the
\* proposed one byte for byte, -EEXIST when it differs, and changes neither
\* the store nor the pending transaction.  A second call with the same pair
\* returns 0 again, however often it is repeated and whatever is staged,
\* until the secret is committed; from then on it returns EEXIST, never
\* -EEXIST.
C16_ValidateNew ==
  [][\A uuid \in Uuids, key \in Secrets :
       (Called("validate_osd_new") /\ last'.uuid = uuid /\ last'.key = key)
         =>
         /\ C16_Answer(uuid, key)
         /\ out'.r \in {0, EEXIST, -EEXIST}
         /\ ValidatedBefore(uuid, key, 0) =>
              /\ out'.r = 0 <=> LuksKey(uuid) \notin DOMAIN store
              /\ out'.r = EEXIST <=>
                   (LuksKey(uuid) \in DOMAIN store
                      /\ store[LuksKey(uuid)] = key)]_vars

\* The same pair validated twice, fresh-create then idempotent-success, the
\* secret having been created and committed in between.
C16_Witness ==
  \E i, j \in 1..Len(calls) :
    /\ i < j
    /\ calls[i].fn = "validate_osd_new"
    /\ calls[i].r = 0
    /\ calls[j] = [calls[i] EXCEPT !.r = EEXIST]
    /\ store[LuksKey(calls[i].uuid)] = calls[i].key

-----------------------------------------------------------------------------
(* C17 *)

\* What do_osd_new does to the state: with Paxos plugged the put of the
\* secret joins the pending transaction, no completion is queued and no
\* proposal is made; with Paxos not plugged the assertion fails.
C17_Effect(uuid, key) ==
  IF paxos.plugged
  THEN /\ role' = role
       /\ paxos' = [paxos EXCEPT !.pending =
                      Append(@, [kind |-> "put", key |-> LuksKey(uuid),
                                 val |-> key, by |-> 0])]
       /\ store' = store
  ELSE /\ role' = "aborted"
       /\ paxos' = paxos
       /\ store' = store

\* C17 as stated: do_osd_new does not call trigger_propose.
C17_Original ==
  [][\A uuid \in Uuids, key \in Secrets :
       (Called("do_osd_new") /\ last'.uuid = uuid /\ last'.key = key) =>
         /\ C17_Effect(uuid, key)
         /\ \A i \in 1..Len(out'.trace) :
              out'.trace[i] # "trigger_propose"]_vars

\* C17, amended: do_osd_new asserts that Paxos is plugged, stages the put
\* of the secret in the pending transaction and queues no completion; it
\* does call trigger_propose, through store_put, and the call proposes
\* nothing because Paxos is plugged: the propose is left to the caller's
\* unplug.
C17_CreateSecret ==
  [][\A uuid \in Uuids, key \in Secrets :
       (Called("do_osd_new") /\ last'.uuid = uuid /\ last'.key = key) =>
         /\ C17_Effect(uuid, key)
         /\ out'.trace =
              IF paxos.plugged
              THEN <<"is_plugged", "get_pending_transaction", "put",
                     "trigger_propose">>
              ELSE <<"is_plugged">>]_vars

\* do_osd_new has just staged the secret while Paxos is plugged: nothing
\* is proposed, no completion queued.
C17_Witness ==
  /\ "fn" \in DOMAIN last
  /\ last.fn = "do_osd_new"
  /\ role = "leader"
  /\ paxos.plugged
  /\ paxos.proposals = <<>>
  /\ paxos.finishers = <<>>
  /\ \E i \in 1..Len(paxos.pending) :
       paxos.pending[i] = [kind |-> "put", key |-> LuksKey(last.uuid),
                           val |-> last.key, by |-> 0]

-----------------------------------------------------------------------------
(* C19 *)

\* The events on the timer's schedule.
Armed == timer.armed

\* A tick has run: tick() called by the monitor, or by the callback of an
\* event that fired.
Ticked == Called("tick") \/ Called("fire")

\* The step ran the upkeep once and left one event armed, a new one.
C19_RunsAndRearms ==
  /\ timer'.upkeep = timer.upkeep + 1
  /\ \E e \in timer'.armed :
       /\ timer'.armed = {e}
       /\ e \notin 1..timer.created
       /\ timer'.tick_event = e

C19_Step ==
  /\ (Called("start_tick") /\ timer.tick_period <= 0) => timer'.armed = {}
  /\ (Ticked /\ timer.tick_period > 0) => C19_RunsAndRearms
  /\ Called("shutdown") => timer'.armed = {}
  /\ Called("fire_cancelled") =>
       /\ timer'.upkeep = timer.upkeep
       /\ timer'.armed = timer.armed
       /\ timer'.created = timer.created

\* C19: whatever start_tick, tick, set_update_period, cancel_tick and
\* shutdown calls are made and whatever events fire, at most one tick event
\* is armed.  start_tick with a period of zero or less leaves none armed;
\* a tick with a positive period runs the upkeep once and leaves exactly
\* one event armed, a new one; shutdown leaves none armed; the callback of
\* a cancelled event runs no upkeep and arms nothing.
C19_TickTimer ==
  /\ [](Cardinality(Armed) <= 1)
  /\ [][C19_Step]_vars

\* An event fired, its tick ran the upkeep a second time and re-armed,
\* while an event cancelled earlier is still to be completed.
C19_Witness ==
  /\ "fn" \in DOMAIN last
  /\ last.fn = "fire"
  /\ timer.upkeep >= 2
  /\ Cardinality(Armed) = 1
  /\ timer.cancelled # {}

-----------------------------------------------------------------------------
(* C18 *)

\* A printable byte.
Printable(b) == b \in 32..126

\* Every byte of v is printable, a newline or a tab.
PlainText(v) == \A i \in 1..Len(v) : Printable(v[i]) \/ v[i] = 10 \/ v[i] = 9

\* What dump shows for a value: the value, or a placeholder with its
\* length.
Shown(v) ==
  IF PlainText(v) THEN v ELSE <<"<<< binary blob of length ", Len(v), " >>>">>

\* The entries of the dump in out.
Entries == out.dump[2]

Dumped == "fn" \in DOMAIN last /\ last.fn = "store_dump"

\* C18: dump with prefix filter P emits one entry for exactly the
\* committed keys that begin with P (every key when P is empty), in key
\* order; the entry of a key carries its value unmodified when every byte
\* of the value is printable, a newline or a tab, and otherwise a
\* placeholder stating the length of the value, whatever bytes 0..255 the
\* value holds.
C18_Dump ==
  Dumped =>
    /\ {Entries[i][1] : i \in 1..Len(Entries)}
         = {k \in DOMAIN store : IsPrefix(last.prefix, k)}
    /\ \A i \in 1..Len(Entries) :
         /\ i < Len(Entries) => KeyLess(Entries[i][1], Entries[i + 1][1])
         /\ Entries[i][2] = Shown(store[Entries[i][1]])

\* dump of the keys under "a" while keys outside it are stored: the value
\* <<200>> of "a" is shown as a placeholder of length 1, the value
\* "h\n7" of "ab" as it is.
C18_Witness ==
  /\ Dumped
  /\ last.prefix = KA
  /\ DOMAIN store = {KA, KAB, KB, KBin, KTxt}
  /\ store[KA] = <<200>>
  /\ Entries = << <<KA, <<"<<< binary blob of length ", 1, " >>>">> >>,
                  <<KAB, <<104, 10, 55>> >> >>

=============================================================================
